---- MODULE Spec2Model ----
(***************************************************************************)
(* maezato: clone all repositories of a GitHub user into                   *)
(* <base>/[<username>/]<fork|mine|contributing>/<name>, and add the        *)
(* 'upstream' and 'original' remotes to every fork.                        *)
(*                                                                         *)
(* The model follows index.js (run, getRepos, handleRepos, cloneRepo,      *)
(* getFork, addRemote) and the reduce chain of promise-each that           *)
(* handleRepos uses.  Paths are sequences of segments, diagnostic texts    *)
(* are sequences of words, and a promise is the state it has settled to.   *)
(***************************************************************************)
EXTENDS Integers, Sequences, FiniteSets, TLC

\* ------------------------------------------------------------- bounds
\* Longest repository list the forge returns in the model.
MaxRepos == 2

\* ---------------------------------------------------------- constants
INDEX_NOT_FOUND == -1

\* Steps of the progress bar per repository (total: list.length * 2).
TicksPerRepo == 2

\* ------------------------------------------------------------- inputs
Users == {"u", "v"}
BaseDir == <<"base">>

\* One entry of the listing: name, owner.login, fork.  Every combination of
\* owner and fork, under two names.
Items ==
  {[name |-> "x", owner |-> "u", fork |-> FALSE],
   [name |-> "y", owner |-> "v", fork |-> FALSE],
   [name |-> "x", owner |-> "v", fork |-> TRUE],
   [name |-> "y", owner |-> "u", fork |-> TRUE]}

RepoLists == UNION {[1..n -> Items] : n \in 0..MaxRepos}

\* The options object bin/maezato.js hands to run().
Options ==
  [token : {<<"flagtok">>, <<"envtok">>}, omitUsername : BOOLEAN, username : Users,
   cloneBaseDir : {BaseDir}]

\* The command line after optionator and the environment: whether parsing
\* threw, the --version and --help flags, the positional arguments, and the
\* optional values (<<>> when absent, else <<value>>) of --token, of
\* GITHUB_TOKEN and of --omit-username.
CliOf(args, omit, token, envToken) ==
  [parseError |-> FALSE, version |-> FALSE, help |-> FALSE, args |-> args,
   omitUsername |-> omit, token |-> token, envToken |-> envToken]

CliInputs ==
  {CliOf(<<"u">>, <<>>, <<"flagtok">>, <<>>),
   CliOf(<<"v", "base">>, <<TRUE>>, <<>>, <<"envtok">>),
   CliOf(<<"u", "base">>, <<TRUE>>, <<"flagtok">>, <<"envtok">>),
   CliOf(<<"v">>, <<FALSE>>, <<"">>, <<"envtok">>),
   CliOf(<<"u">>, <<>>, <<>>, <<>>),
   CliOf(<<"v", "base">>, <<TRUE>>, <<"">>, <<"">>),
   CliOf(<<>>, <<>>, <<"flagtok">>, <<>>),
   CliOf(<<"u", "base", "more">>, <<>>, <<"flagtok">>, <<>>),
   [CliOf(<<"u">>, <<>>, <<"flagtok">>, <<>>) EXCEPT !.parseError = TRUE],
   [CliOf(<<>>, <<>>, <<>>, <<>>) EXCEPT !.version = TRUE],
   [CliOf(<<"u">>, <<>>, <<>>, <<>>) EXCEPT !.help = TRUE],
   [CliOf(<<"u">>, <<>>, <<>>, <<"envtok">>) EXCEPT !.help = TRUE]}

\* Diagnostic texts a git subprocess writes to stderr, word by word.
CloneExistsText(n) ==
  <<"fatal:", "destination", "path", n, "already", "exists", "and", "is",
    "not", "an", "empty", "directory", ".">>
CloneDeniedText == <<"fatal:", "Could", "not", "read", "from", "remote", "repository", ".">>
RemoteExistsText(r) == <<"fatal:", "remote", r, "already", "exists", ".">>
RemoteBareExistsText == <<"fatal:", "remote", "already", "exists", ".">>
NotARepoText == <<"fatal:", "not", "a", "git", "repository">>

RemoteNames == {"upstream", "original"}

\* What the callback of child_process.exec receives: whether error is set
\* (a non-zero exit) and the text of stderr.
ExecOk == [error |-> FALSE, stderr |-> <<>>]
ExecFailed(text) == [error |-> TRUE, stderr |-> text]

CloneResults(item) ==
  {ExecOk, ExecFailed(CloneExistsText(item.name)), ExecFailed(CloneDeniedText)}

RemoteResults ==
  {ExecOk, ExecFailed(RemoteBareExistsText), ExecFailed(NotARepoText)}
    \cup {ExecFailed(RemoteExistsText(r)) : r \in RemoteNames}

\* Outcomes of a got() request: a success response, an HTTPError (which
\* carries the response), or a request error (which carries none).
GotOutcomes == {"ok", "http", "net"}

\* ------------------------------------------------------ pure functions
\* String.prototype.indexOf on word sequences: the first position (from 0)
\* at which pat occurs in text, or -1.
Occurs(text, pat, k) ==
  /\ k + Len(pat) <= Len(text)
  /\ SubSeq(text, k + 1, k + Len(pat)) = pat

IndexOf(text, pat) ==
  IF \E k \in 0..Len(text) : Occurs(text, pat, k)
  THEN CHOOSE k \in 0..Len(text) :
         /\ Occurs(text, pat, k)
         /\ \A j \in 0..(k - 1) : ~Occurs(text, pat, j)
  ELSE INDEX_NOT_FOUND

\* path.join of a directory and one more segment.
PathJoin(dir, seg) == Append(dir, seg)

CLONE_EXISTS == <<"already", "exists", "and", "is", "not", "an", "empty", "directory">>

RemoteExistsPattern(name) == <<"remote", name, "already", "exists">>

\* cloneRepo: the category of a repository, fork first.
TypeOwnerFirst(item, opts) ==
  IF item.owner = opts.username THEN "mine"
  ELSE IF item.fork THEN "fork" ELSE "contributing"

Type(item, opts) ==
  IF item.fork THEN "fork"
  ELSE IF item.owner = opts.username THEN "mine" ELSE "contributing"

\* cloneRepo: the directory the clone runs in.
ClonePathKeepUser(item, opts) ==
  PathJoin(PathJoin(opts.cloneBaseDir, opts.username), Type(item, opts))

ClonePath(item, opts) ==
  IF opts.omitUsername
  THEN PathJoin(opts.cloneBaseDir, Type(item, opts))
  ELSE PathJoin(PathJoin(opts.cloneBaseDir, opts.username), Type(item, opts))

\* cloneRepo: the working copy handed to getFork.
ForkPath(item, opts) == PathJoin(ClonePath(item, opts), item.name)

\* The exec callback of cloneRepo: is the clone promise rejected?
CloneRejectsAlways(error, stderr) == error

CloneRejectsNever(error, stderr) == FALSE

CloneRejects(error, stderr) ==
  error /\ IndexOf(stderr, CLONE_EXISTS) = INDEX_NOT_FOUND

\* The exec callback of addRemote: is the promise rejected?
RemoteRejectsAlways(name, error, stderr) == error

RemoteRejectsNever(name, error, stderr) == FALSE

RemoteRejects(name, error, stderr) ==
  error /\ IndexOf(stderr, RemoteExistsPattern(name)) = INDEX_NOT_FOUND

\* bin/maezato.js: a value that is neither undefined nor the empty string.
Truthy(v) == IF v = <<>> THEN FALSE ELSE v[1] # ""

\* bin/maezato.js: const token = opts.token || process.env.GITHUB_TOKEN
TokenOf(c) == IF Truthy(c.token) THEN c.token ELSE c.envToken

\* bin/maezato.js: if (!token)
MissingTokenNever(token) == FALSE

MissingToken(token) == ~Truthy(token)

\* path.resolve of the target path, the process running in BaseDir.
PathResolve(p) == IF p = "." THEN BaseDir ELSE <<p>>

\* bin/maezato.js: the status process.exit is called with before run(), or
\* <<>> when the script goes on to call run().
CliExit(c) ==
  IF c.parseError THEN <<1>>
  ELSE IF c.version THEN <<0>>
  ELSE IF c.help THEN <<0>>
  ELSE IF Len(c.args) # 1 /\ Len(c.args) # 2 THEN <<1>>
  ELSE IF MissingToken(TokenOf(c)) THEN <<1>>
  ELSE <<>>

\* bin/maezato.js: the options run() is called with.
CliOptions(c) ==
  [token |-> TokenOf(c),
   omitUsername |-> IF c.omitUsername # <<>> THEN c.omitUsername[1] ELSE FALSE,
   username |-> c.args[1],
   cloneBaseDir |-> PathResolve(IF Len(c.args) = 1 THEN "." ELSE c.args[2])]

\* -------------------------------------------------------------- state
VARIABLES
  cmdOptions,   \* the options run() was called with, <<>> before
  repos,        \* what the forge lists for the user
  pc,           \* "cli", "exited", and of run(): "listing", "batch", "done", "rejected"
  listOutcome,  \* how the listing request ended, "none" before
  batch,        \* handleRepos: "none", "pending", "resolved", "rejected", "threw"
  progressBar,  \* [total, curr], or <<>> while undefined
  st,           \* per item, the position of its cloneRepo pipeline
  dirs,         \* directories mkdirp was called with
  cloneExec,    \* per item, the git clone commands run: [cwd, url]
  cloneResult,  \* per item, what the clone callback received: [error, stderr]
  forkGot,      \* per item, the repository detail requests made
  remoteExec,   \* per item, the git remote add commands run: [name, cwd, url]
  remoteResult, \* per item, what each remote add callback received
  ticks,        \* per item, the progress ticks its pipeline made
  errors,       \* what console.error reported: [what, item]
  cli,          \* the command line and environment of the process
  exitCode,     \* <<code>> once process.exit was called, <<>> before
  forkResult,   \* per item, how the repository detail request ended
  remotePromise, \* per item, what each addRemote promise settled to
  fulfilledWith \* per item, <<value>> once the cloneRepo promise is fulfilled

vars ==
  <<cmdOptions, repos, pc, listOutcome, batch, progressBar, st, dirs, cloneExec,
    cloneResult, forkGot, remoteExec, remoteResult, ticks, errors, cli, exitCode,
    forkResult, remotePromise, fulfilledWith>>

N == Len(repos)
Idx == 1..N

Init ==
  /\ cli \in CliInputs
  /\ exitCode = <<>>
  /\ cmdOptions = <<>>
  /\ repos \in RepoLists
  /\ pc = "cli"
  /\ listOutcome = "none"
  /\ batch = "none"
  /\ progressBar = <<>>
  /\ st = [i \in 1..Len(repos) |-> "pending"]
  /\ dirs = {}
  /\ cloneExec = [i \in 1..Len(repos) |-> <<>>]
  /\ cloneResult = [i \in 1..Len(repos) |-> <<>>]
  /\ forkGot = [i \in 1..Len(repos) |-> <<>>]
  /\ remoteExec = [i \in 1..Len(repos) |-> <<>>]
  /\ remoteResult = [i \in 1..Len(repos) |-> <<>>]
  /\ ticks = [i \in 1..Len(repos) |-> 0]
  /\ forkResult = [i \in 1..Len(repos) |-> <<>>]
  /\ remotePromise = [i \in 1..Len(repos) |-> <<>>]
  /\ fulfilledWith = [i \in 1..Len(repos) |-> <<>>]
  /\ errors = {}

\* progressBar.tick()
Tick(bar) == [bar EXCEPT !.curr = @ + 1]

\* ---------------------------------------------------------------- run
\* run(options): the options are kept, mkdirp(cloneBaseDir), then
\* getRepos() sends the listing request.
Run(options) ==
  /\ cmdOptions' = options
  /\ dirs' = dirs \cup {options.cloneBaseDir}
  /\ pc' = "listing"

\* bin/maezato.js: the script either ends in process.exit or calls run()
\* with the options it built.
Main ==
  /\ pc = "cli"
  /\ IF CliExit(cli) # <<>>
     THEN /\ exitCode' = CliExit(cli)
          /\ pc' = "exited"
          /\ UNCHANGED <<cmdOptions, dirs>>
     ELSE /\ Run(CliOptions(cli))
          /\ exitCode' = exitCode
  /\ UNCHANGED <<repos, listOutcome, batch, progressBar, st, cloneExec, cloneResult,
                 forkGot, remoteExec, remoteResult, ticks, errors, cli, forkResult,
                 remotePromise, fulfilledWith>>

\* handleRepos(list): the progress bar is created with total list.length * 2
\* and the promise-each chain over the list is returned.
HandleReposTotalOnce(list) == Len(list)

HandleReposTotal(list) == Len(list) * TicksPerRepo

\* The listing request settles.  Success hands response.body to
\* handleRepos.  An HTTPError is reported and getRepos fulfils with
\* undefined, on which handleRepos throws at list.length.  An error without
\* a response makes the catch handler itself throw at error.response.body,
\* so handleRepos is never called.  In both failures the chain of run() is
\* rejected and its last then() never runs.
ListReturn(o) ==
  /\ pc = "listing"
  /\ listOutcome' = o
  /\ IF o = "ok"
     THEN /\ progressBar' = [total |-> HandleReposTotal(repos), curr |-> 0]
          /\ batch' = "pending"
          /\ pc' = "batch"
          /\ errors' = errors
     ELSE /\ progressBar' = progressBar
          /\ batch' = IF o = "http" THEN "threw" ELSE "none"
          /\ pc' = "rejected"
          /\ errors' = errors \cup {[what |-> "list", item |-> 0]}
  /\ UNCHANGED <<cmdOptions, repos, st, dirs, cloneExec, cloneResult, forkGot,
                 remoteExec, remoteResult, ticks,
                 cli, exitCode, forkResult, remotePromise, fulfilledWith>>

\* promise-each: fn(curr) is called from the then() of the previous
\* element's promise, so only once that promise is fulfilled.
EachReadyAll(i) == TRUE

EachReady(i) == IF i = 1 THEN TRUE ELSE st[i - 1] = "fulfilled"

\* cloneRepo(item) up to exec: the category directory is created and
\* git clone is started in it.
StartClone(i) ==
  /\ batch = "pending"
  /\ st[i] = "pending"
  /\ EachReady(i)
  /\ dirs' = dirs \cup {ClonePath(repos[i], cmdOptions)}
  /\ cloneExec' = [cloneExec EXCEPT ![i] =
       Append(@, [cwd |-> ClonePath(repos[i], cmdOptions),
                  url |-> <<repos[i].owner, repos[i].name>>])]
  /\ st' = [st EXCEPT ![i] = "cloning"]
  /\ UNCHANGED <<cmdOptions, repos, pc, listOutcome, batch, progressBar, cloneResult,
                 forkGot, remoteExec, remoteResult, ticks, errors,
                 cli, exitCode, forkResult, remotePromise, fulfilledWith>>

\* The exec callback of cloneRepo: one tick, then reject (reported) or
\* fulfil.  A rejection skips the then() of cloneRepo, so the promise
\* cloneRepo returned is rejected too.
CloneReturn(i, r) ==
  /\ st[i] = "cloning"
  /\ progressBar' = Tick(progressBar)
  /\ ticks' = [ticks EXCEPT ![i] = @ + 1]
  /\ cloneResult' = [cloneResult EXCEPT ![i] = <<r>>]
  /\ IF CloneRejects(r.error, r.stderr)
     THEN /\ errors' = errors \cup {[what |-> "clone", item |-> i]}
          /\ st' = [st EXCEPT ![i] = "rejected"]
     ELSE /\ errors' = errors
          /\ st' = [st EXCEPT ![i] = "cloned"]
  /\ UNCHANGED <<cmdOptions, repos, pc, listOutcome, batch, dirs, cloneExec, forkGot,
                 remoteExec, remoteResult,
                 cli, exitCode, forkResult, remotePromise, fulfilledWith>>

\* The then() of cloneRepo: the second tick, then getFork for a fork (its
\* detail request is sent) or the item itself.
SecondTickNone(bar) == bar

SecondTick(bar) == Tick(bar)

CloneThen(i) ==
  /\ st[i] = "cloned"
  /\ progressBar' = SecondTick(progressBar)
  /\ ticks' = [ticks EXCEPT ![i] = @ + 1]
  /\ IF repos[i].fork
     THEN /\ forkGot' = [forkGot EXCEPT ![i] =
               Append(@, <<"repos", repos[i].owner, repos[i].name>>)]
          /\ st' = [st EXCEPT ![i] = "fetching"]
     ELSE /\ forkGot' = forkGot
          /\ st' = [st EXCEPT ![i] = "fulfilled"]
  /\ fulfilledWith' =
       IF repos[i].fork THEN fulfilledWith ELSE [fulfilledWith EXCEPT ![i] = <<repos[i]>>]
  /\ UNCHANGED <<cmdOptions, repos, pc, listOutcome, batch, dirs, cloneExec,
                 cloneResult, remoteExec, remoteResult, errors,
                 cli, exitCode, forkResult, remotePromise>>

\* The values promises settle to: undefined, the error of exec, and the
\* body of the repository detail response, which names the parent and the
\* source of the fork.
Undefined == [type |-> "undefined"]
ExecError == [type |-> "error"]
ForkDetail(item) ==
  [name |-> item.name, owner |-> item.owner, fork |-> item.fork,
   parent |-> "parent", source |-> "source"]

\* addRemote(item, forkPath, name, url) up to exec.
RemoteCwd(item, opts) == ForkPath(item, opts)

AddRemote(i, name, url) ==
  remoteExec' = [remoteExec EXCEPT ![i] =
    Append(@, [name |-> name, cwd |-> RemoteCwd(repos[i], cmdOptions), url |-> url])]

\* getFork: the detail request settles.  Success adds 'upstream' with the
\* parent's URL.  Any failure reaches the catch handler, which reports it
\* and then reads error.response.body: with an HTTPError getFork fulfils
\* with undefined, without a response the handler throws and getFork is
\* rejected.
ForkReturnBoth(i, o) ==
  /\ st[i] = "fetching"
  /\ IF o = "ok"
     THEN /\ remoteExec' = [remoteExec EXCEPT ![i] =
               @ \o <<[name |-> "upstream", cwd |-> RemoteCwd(repos[i], cmdOptions),
                        url |-> "parent"],
                      [name |-> "original", cwd |-> RemoteCwd(repos[i], cmdOptions),
                        url |-> "source"]>>]
          /\ st' = [st EXCEPT ![i] = "upstream"]
          /\ errors' = errors
     ELSE /\ remoteExec' = remoteExec
          /\ st' = [st EXCEPT ![i] = IF o = "http" THEN "fulfilled" ELSE "rejected"]
          /\ errors' = errors \cup {[what |-> "fork", item |-> i]}
  /\ forkResult' = [forkResult EXCEPT ![i] = <<o>>]
  /\ fulfilledWith' =
       IF o = "http" THEN [fulfilledWith EXCEPT ![i] = <<Undefined>>] ELSE fulfilledWith
  /\ UNCHANGED <<cmdOptions, repos, pc, listOutcome, batch, progressBar, dirs,
                 cloneExec, cloneResult, forkGot, remoteResult, ticks,
                 cli, exitCode, remotePromise>>

ForkReturn(i, o) ==
  /\ st[i] = "fetching"
  /\ IF o = "ok"
     THEN /\ AddRemote(i, "upstream", "parent")
          /\ st' = [st EXCEPT ![i] = "upstream"]
          /\ errors' = errors
     ELSE /\ remoteExec' = remoteExec
          /\ st' = [st EXCEPT ![i] = IF o = "http" THEN "fulfilled" ELSE "rejected"]
          /\ errors' = errors \cup {[what |-> "fork", item |-> i]}
  /\ forkResult' = [forkResult EXCEPT ![i] = <<o>>]
  /\ fulfilledWith' =
       IF o = "http" THEN [fulfilledWith EXCEPT ![i] = <<Undefined>>] ELSE fulfilledWith
  /\ UNCHANGED <<cmdOptions, repos, pc, listOutcome, batch, progressBar, dirs,
                 cloneExec, cloneResult, forkGot, remoteResult, ticks,
                 cli, exitCode, remotePromise>>

\* The exec callback of addRemote.  Fulfilled after 'upstream', getFork adds
\* 'original' with the source's URL; fulfilled after 'original', getFork is
\* fulfilled.  Rejected, the remaining then() is skipped and the catch
\* handler of getFork reports and throws at error.response.body (the error
\* of exec has no response), so getFork and cloneRepo are rejected.
RemoteReturn(i, r) ==
  /\ st[i] \in RemoteNames
  /\ remoteResult' = [remoteResult EXCEPT ![i] = Append(@, r)]
  /\ IF RemoteRejects(st[i], r.error, r.stderr)
     THEN /\ errors' = errors \cup {[what |-> st[i], item |-> i], [what |-> "fork", item |-> i]}
          /\ remotePromise' = [remotePromise EXCEPT ![i] =
               Append(@, [state |-> "rejected", value |-> ExecError])]
          /\ st' = [st EXCEPT ![i] = "rejected"]
          /\ remoteExec' = remoteExec
          /\ fulfilledWith' = fulfilledWith
     ELSE /\ errors' = errors
          /\ remotePromise' = [remotePromise EXCEPT ![i] =
               Append(@, [state |-> "fulfilled", value |-> ForkDetail(repos[i])])]
          /\ IF st[i] = "upstream"
             THEN /\ AddRemote(i, "original", "source")
                  /\ st' = [st EXCEPT ![i] = "original"]
                  /\ fulfilledWith' = fulfilledWith
             ELSE /\ remoteExec' = remoteExec
                  /\ st' = [st EXCEPT ![i] = "fulfilled"]
                  /\ fulfilledWith' = [fulfilledWith EXCEPT ![i] = <<ForkDetail(repos[i])>>]
  /\ UNCHANGED <<cmdOptions, repos, pc, listOutcome, batch, progressBar, dirs,
                 cloneExec, cloneResult, forkGot, ticks,
                 cli, exitCode, forkResult>>

\* promise-each: the chain is fulfilled after the promise of the last
\* element, which is only reached through all the others.
EachDoneFirst == IF N = 0 THEN TRUE ELSE st[1] = "fulfilled"

EachDone == \A i \in Idx : st[i] = "fulfilled"

BatchResolve ==
  /\ batch = "pending"
  /\ EachDone
  /\ batch' = "resolved"
  /\ UNCHANGED <<cmdOptions, repos, pc, listOutcome, progressBar, st, dirs, cloneExec,
                 cloneResult, forkGot, remoteExec, remoteResult, ticks, errors,
                 cli, exitCode, forkResult, remotePromise, fulfilledWith>>

\* promise-each: a rejected element rejects the whole chain, no later
\* then() of it runs; run() has no catch, so its chain ends rejected.
BatchReject ==
  /\ batch = "pending"
  /\ \E i \in Idx : st[i] = "rejected"
  /\ batch' = "rejected"
  /\ pc' = "rejected"
  /\ UNCHANGED <<cmdOptions, repos, listOutcome, progressBar, st, dirs, cloneExec,
                 cloneResult, forkGot, remoteExec, remoteResult, ticks, errors,
                 cli, exitCode, forkResult, remotePromise, fulfilledWith>>

\* The last then() of run(): 'All done, thank you!'
AllDone ==
  /\ pc = "batch"
  /\ batch = "resolved"
  /\ pc' = "done"
  /\ UNCHANGED <<cmdOptions, repos, listOutcome, batch, progressBar, st, dirs,
                 cloneExec, cloneResult, forkGot, remoteExec, remoteResult, ticks, errors,
                 cli, exitCode, forkResult, remotePromise, fulfilledWith>>

Next ==
  \/ Main
  \/ \E o \in GotOutcomes : ListReturn(o)
  \/ \E i \in Idx : StartClone(i)
  \/ \E i \in Idx : \E r \in CloneResults(repos[i]) : CloneReturn(i, r)
  \/ \E i \in Idx : CloneThen(i)
  \/ \E i \in Idx : \E o \in GotOutcomes : ForkReturn(i, o)
  \/ \E i \in Idx : \E r \in RemoteResults : RemoteReturn(i, r)
  \/ BatchResolve
  \/ BatchReject
  \/ AllDone

Spec == Init /\ [][Next]_vars

\* ------------------------------------------------------------- claims
Finished(i) == st[i] \in {"fulfilled", "rejected"}
InProgress(i) == st[i] \in {"cloning", "cloned", "fetching", "upstream", "original"}
Reported(what, i) == [what |-> what, item |-> i] \in errors
Contains(text, pat) == IndexOf(text, pat) # -1
Last(seq) == seq[Len(seq)]

\* The clone of item i ended with an error that is not the tolerated one.
CloneFailed(i) ==
  /\ cloneResult[i] # <<>>
  /\ cloneResult[i][1].error
  /\ ~Contains(cloneResult[i][1].stderr,
               <<"already", "exists", "and", "is", "not", "an", "empty", "directory">>)

\* The clone of item i ended with the tolerated 'already exists' error.
CloneTolerated(i) ==
  /\ cloneResult[i] # <<>>
  /\ cloneResult[i][1].error
  /\ Contains(cloneResult[i][1].stderr,
              <<"already", "exists", "and", "is", "not", "an", "empty", "directory">>)

\* C1: whatever the outcomes of the items, the promise handleRepos returned
\* is never rejected.
C1_BatchNeverRejected == batch # "rejected"

\* C2: once the batch has settled, every item after one whose clone failed
\* (other than 'already exists') has had its clone invoked.
C2_LaterItemsStillCloned ==
  batch \in {"resolved", "rejected"} =>
    \A i \in Idx : \A j \in Idx :
      (i < j /\ CloneFailed(i)) => Len(cloneExec[j]) = 1

\* C3: when the batch has resolved, the progress bar created with total 2N
\* stands at exactly 2N ticks, items whose fork linking failed included.
C3_TicksAtResolve ==
  batch = "resolved" =>
    /\ progressBar.total = 2 * N
    /\ progressBar.curr = 2 * N

C3_Witness ==
  /\ batch = "resolved"
  /\ N >= 2
  /\ \E i \in Idx : Reported("fork", i)

\* C4: items run one at a time in list order: the clone of a later item has
\* only been started when the pipeline of every earlier item has finished,
\* and at most one item is in progress.
C4_OneItemAtATime ==
  /\ \A i \in Idx : \A j \in Idx :
       (i < j /\ cloneExec[j] # <<>>) => (cloneExec[i] # <<>> /\ Finished(i))
  /\ Cardinality({i \in Idx : InProgress(i)}) <= 1

C4_Witness ==
  /\ N >= 2
  /\ repos[1].fork
  /\ Len(remoteExec[1]) = 2
  /\ st[1] = "fulfilled"
  /\ st[2] = "cloning"

\* C5: the batch has resolved, and 'All done' has been printed, only when
\* every descriptor has had its clone invoked and its pipeline has finished.
C5_ResolvedOnlyAfterAll ==
  (batch = "resolved" \/ pc = "done") =>
    \A i \in Idx : Len(cloneExec[i]) = 1 /\ cloneResult[i] # <<>> /\ Finished(i)

C5_Witness ==
  /\ pc = "done"
  /\ N >= 2

\* The category the claims give a descriptor: fork first, then ownership.
ClaimedCategory(item, user) ==
  CASE item.fork -> "fork"
    [] ~item.fork /\ item.owner = user -> "mine"
    [] ~item.fork /\ item.owner # user -> "contributing"

\* C6: the category under which an item is cloned is 'fork' for a fork
\* whoever owns it, else 'mine' for the acting user's own repository, else
\* 'contributing'.
C6_ForkFirstCategory ==
  \A i \in Idx :
    cloneExec[i] # <<>> =>
      Last(cloneExec[i][1].cwd) = ClaimedCategory(repos[i], cmdOptions.username)

C6_Witness ==
  \E i \in Idx :
    /\ cloneExec[i] # <<>>
    /\ repos[i].fork
    /\ repos[i].owner = cmdOptions.username

\* The clone target the claims give a descriptor.
ClaimedTarget(item, opts) ==
  IF opts.omitUsername
  THEN <<"base", ClaimedCategory(item, opts.username), item.name>>
  ELSE <<"base", opts.username, ClaimedCategory(item, opts.username), item.name>>

\* C7: the clone runs in the clone target minus its last segment, a
\* directory that was created, and every remote add of a fork runs in the
\* clone target itself.
C7_CloneTarget ==
  \A i \in Idx :
    LET target == ClaimedTarget(repos[i], cmdOptions) IN
      /\ \A k \in 1..Len(cloneExec[i]) :
           /\ cloneExec[i][k].cwd = SubSeq(target, 1, Len(target) - 1)
           /\ cloneExec[i][k].cwd \in dirs
           /\ Last(cloneExec[i][k].url) = Last(target)
      /\ \A k \in 1..Len(remoteExec[i]) : remoteExec[i][k].cwd = target

C7_Witness ==
  \E i \in Idx : \E j \in Idx :
    /\ Len(remoteExec[i]) = 2
    /\ cmdOptions.omitUsername
    /\ ~repos[j].fork
    /\ cloneExec[j] # <<>>

\* C8: a clone error whose text contains 'already exists and is not an
\* empty directory' counts as success: no clone error is reported for the
\* item, the clone step does not reject it, fork linking runs exactly when
\* the item is a fork, a non-fork item is fulfilled, and once the item is
\* fulfilled the next item can be cloned.
C8_CloneAlreadyExists ==
  \A i \in Idx :
    CloneTolerated(i) =>
      /\ ~Reported("clone", i)
      /\ st[i] = "rejected" => (repos[i].fork /\ Len(forkGot[i]) = 1)
      /\ st[i] # "cloned" => (Len(forkGot[i]) = IF repos[i].fork THEN 1 ELSE 0)
      /\ (~repos[i].fork /\ st[i] # "cloned") => st[i] = "fulfilled"
      /\ (st[i] = "fulfilled" /\ i < N /\ batch = "pending")
           => (cloneExec[i + 1] # <<>> \/ ENABLED StartClone(i + 1))

C8_Witness ==
  \E i \in Idx :
    /\ CloneTolerated(i)
    /\ repos[i].fork
    /\ Len(remoteExec[i]) = 2
    /\ i < N
    /\ cloneExec[i + 1] # <<>>

\* The k-th remote add of item i ended with an error whose text contains pat.
RemoteFailedWith(i, k, pat) ==
  /\ remoteResult[i][k].error
  /\ Contains(remoteResult[i][k].stderr, pat)

\* The k-th remote add of item i counted as success: nothing was reported
\* for it, and the next step followed ('original' after 'upstream', the end
\* of the item's pipeline after 'original').
RemoteCountedAsSuccess(i, k) ==
  /\ ~Reported(remoteExec[i][k].name, i)
  /\ IF k = 1
     THEN Len(remoteExec[i]) = 2 /\ remoteExec[i][2].name = "original"
     ELSE st[i] = "fulfilled"

\* C9 as stated: a remote add error whose text contains 'remote already
\* exists' counts as success.
C9_RemoteAlreadyExistsAsStated ==
  \A i \in Idx : \A k \in 1..Len(remoteResult[i]) :
    RemoteFailedWith(i, k, <<"remote", "already", "exists">>)
      => RemoteCountedAsSuccess(i, k)

\* C9 amended: a remote add error whose text contains 'remote <name> already
\* exists', <name> being the remote that was being added, counts as
\* success: addRemote is fulfilled, nothing is reported, the next step
\* follows.
C9_RemoteNameAlreadyExists ==
  \A i \in Idx : \A k \in 1..Len(remoteResult[i]) :
    RemoteFailedWith(i, k, <<"remote", remoteExec[i][k].name, "already", "exists">>)
      => RemoteCountedAsSuccess(i, k)

C9_Witness ==
  \E i \in Idx :
    /\ Len(remoteResult[i]) = 2
    /\ RemoteFailedWith(i, 1, <<"remote", "upstream", "already", "exists">>)
    /\ RemoteFailedWith(i, 2, <<"remote", "original", "already", "exists">>)
    /\ st[i] = "fulfilled"

\* C10: when the listing fails, the failure is reported, nothing is cloned,
\* fetched or added, and the run still completes normally: nothing throws
\* and no promise of it is rejected.
C10_ListFailureIsEmptyBatch ==
  listOutcome \in {"http", "net"} =>
    /\ Reported("list", 0)
    /\ \A i \in Idx : cloneExec[i] = <<>> /\ forkGot[i] = <<>> /\ remoteExec[i] = <<>>
    /\ batch # "threw"
    /\ pc # "rejected"

\* Neither --token nor GITHUB_TOKEN supplies a token.
NoTokenSupplied == ~Truthy(cli.token) /\ ~Truthy(cli.envToken)

\* None of the core has run: run() was not called, no directory was made,
\* no listing was requested, nothing was cloned, fetched or added.
NoCoreLogicRan ==
  /\ cmdOptions = <<>>
  /\ dirs = {}
  /\ listOutcome = "none"
  /\ batch = "none"
  /\ \A i \in Idx : cloneExec[i] = <<>> /\ forkGot[i] = <<>> /\ remoteExec[i] = <<>>

\* C11 as stated: without a token the script has exited with a non-zero
\* status and none of the core has run.
C11_NoTokenExitsNonZeroAsStated ==
  (pc # "cli" /\ NoTokenSupplied) =>
    /\ pc = "exited"
    /\ exitCode # <<>>
    /\ exitCode[1] # 0
    /\ NoCoreLogicRan

\* C11 amended: without a token the script has exited and none of the core
\* has run; the status is non-zero unless --version or --help was given,
\* which end the script with status 0 before the token is looked at.
C11_NoTokenExitsBeforeCore ==
  (pc # "cli" /\ NoTokenSupplied) =>
    /\ pc = "exited"
    /\ exitCode # <<>>
    /\ (exitCode[1] = 0) <=> (~cli.parseError /\ (cli.version \/ cli.help))
    /\ NoCoreLogicRan

C11_Witness ==
  /\ NoTokenSupplied
  /\ ~cli.parseError /\ ~cli.version /\ ~cli.help
  /\ Len(cli.args) = 1
  /\ pc = "exited"
  /\ exitCode = <<1>>

\* The k-th remote add of item i ended with an error whose text does not
\* name the remote being added as already existing.
RemoteFailed(i, k) ==
  /\ remoteResult[i][k].error
  /\ ~Contains(remoteResult[i][k].stderr,
               <<"remote", remoteExec[i][k].name, "already", "exists">>)

\* C12: the promise of addRemote is rejected exactly when the subprocess
\* reported an error whose text lacks the tolerated 'already exists' text,
\* and is fulfilled with the item it was passed in every other case.
C12_AddRemoteSettles ==
  \A i \in Idx :
    /\ Len(remotePromise[i]) = Len(remoteResult[i])
    /\ \A k \in 1..Len(remoteResult[i]) :
         IF RemoteFailed(i, k)
         THEN remotePromise[i][k].state = "rejected"
         ELSE /\ remotePromise[i][k].state = "fulfilled"
              /\ remotePromise[i][k].value = ForkDetail(repos[i])

C12_Witness ==
  \E i \in Idx :
    /\ Len(remotePromise[i]) = 2
    /\ remoteResult[i][1].error
    /\ remotePromise[i][1].state = "fulfilled"
    /\ remoteResult[i][2].stderr = <<"fatal:", "not", "a", "git", "repository">>
    /\ remotePromise[i][2].state = "rejected"

\* C13: a fork whose clone failed (other than 'already exists') gets no
\* lineage fetch and no remote add.
C13_FailedCloneSkipsForkLinking ==
  \A i \in Idx :
    (repos[i].fork /\ CloneFailed(i)) => (forkGot[i] = <<>> /\ remoteExec[i] = <<>>)

C13_Witness ==
  \E i \in Idx :
    /\ repos[i].fork
    /\ CloneFailed(i)
    /\ batch = "rejected"

\* C14: only forks get remote adds; 'upstream' is added after the lineage
\* fetch has returned, 'original' only after 'upstream' has returned
\* fulfilled, at most one remote add is running at a time, and after a
\* failed 'upstream' no 'original' is ever attempted.
C14_UpstreamThenOriginal ==
  \A i \in Idx :
    /\ [k \in 1..Len(remoteExec[i]) |-> remoteExec[i][k].name]
         \in {<<>>, <<"upstream">>, <<"upstream", "original">>}
    /\ remoteExec[i] # <<>> => (repos[i].fork /\ forkResult[i] = <<"ok">>)
    /\ Len(remoteExec[i]) - Len(remoteResult[i]) \in {0, 1}
    /\ Len(remoteExec[i]) = 2 =>
         (remoteResult[i] # <<>> /\ remotePromise[i][1].state = "fulfilled")
    /\ (remoteResult[i] # <<>> /\ RemoteFailed(i, 1)) => Len(remoteExec[i]) = 1

C14_Witness ==
  \E i \in Idx : \E j \in Idx :
    /\ Len(remoteExec[i]) = 2
    /\ Len(remoteResult[i]) = 2
    /\ Len(remoteResult[j]) = 1
    /\ RemoteFailed(j, 1)
    /\ batch = "rejected"

\* Once item i is fulfilled the next item, if any, is or can be cloned.
NextItemGoesOn(i) ==
  (i < N /\ batch = "pending") => (cloneExec[i + 1] # <<>> \/ ENABLED StartClone(i + 1))

\* C15: when the lineage fetch of a fork fails, with or without a response,
\* the error is reported, no remote add is run for the item, the item's
\* pipeline ends fulfilled and the batch goes on to the next item.
C15_FetchFailureGoesOn ==
  \A i \in Idx :
    (forkResult[i] # <<>> /\ forkResult[i] # <<"ok">>) =>
      /\ Reported("fork", i)
      /\ remoteExec[i] = <<>>
      /\ st[i] = "fulfilled"
      /\ NextItemGoesOn(i)

\* C16: a remote add that failed (other than 'already exists') is reported
\* and ends the item's pipeline without rejecting it, and the batch goes on
\* to the next item.
C16_RemoteFailureIsPerItem ==
  \A i \in Idx : \A k \in 1..Len(remoteResult[i]) :
    RemoteFailed(i, k) =>
      /\ Reported(remoteExec[i][k].name, i)
      /\ st[i] = "fulfilled"
      /\ NextItemGoesOn(i)

\* C17: an item has one tick as soon as its clone has returned, whatever
\* the outcome, and exactly two when its pipeline has ended.
C17_TwoTicksPerItem ==
  \A i \in Idx :
    /\ cloneResult[i] # <<>> => ticks[i] >= 1
    /\ Finished(i) => ticks[i] = 2

\* C18: a fork has its second tick only when its fork linking has ended;
\* any other item has it as soon as its clone has been fulfilled.
C18_SecondTickAfterLinking ==
  \A i \in Idx :
    ticks[i] = 2 => Finished(i)

\* C19: in a run that is over, every item that is not a fork has had
\* exactly one clone, no lineage fetch and no remote add, and where its
\* pipeline was fulfilled it yielded the descriptor unchanged.
C19_NonForkOneCloneOnly ==
  (listOutcome = "ok" /\ batch \in {"resolved", "rejected"}) =>
    \A i \in Idx :
      ~repos[i].fork =>
        /\ Len(cloneExec[i]) = 1
        /\ forkGot[i] = <<>>
        /\ remoteExec[i] = <<>>
        /\ st[i] = "fulfilled" => fulfilledWith[i] = <<repos[i]>>

\* C20: the progress bar, once created, has total 2N and a count between 0
\* and the total; no step lowers the count or changes the total.
C20_Bounded ==
  progressBar # <<>> =>
    /\ progressBar.total = 2 * N
    /\ progressBar.curr >= 0
    /\ progressBar.curr <= progressBar.total

C20_Monotone ==
  progressBar # <<>> =>
    /\ progressBar' # <<>>
    /\ progressBar'.total = progressBar.total
    /\ progressBar'.curr >= progressBar.curr

C20_ProgressWithinTotal == [](C20_Bounded) /\ [][C20_Monotone]_vars

C20_Witness ==
  /\ N >= 2
  /\ batch = "rejected"
  /\ progressBar.curr = 3
  /\ \E i \in Idx : CloneFailed(i)
====
